---- MODULE Spec2Model ----
(***************************************************************************)
(* PersonaQuant: incremental multi-source collection of news and social    *)
(* posts per ticker (news_collector.py, social_collector.py) and the       *)
(* sentiment summary built on the two stores (sentiment_analyzer.py).      *)
(*                                                                         *)
(* Modelling conventions                                                   *)
(*  - A canonical timestamp 'YYYY-MM-DD HH:MM:SS' is an integer            *)
(*    day * SlotsPerDay + slot; the lexicographic order of the strings is  *)
(*    the order of the integers.  NoDate stands for None.                  *)
(*  - A table is the set of its rows (id and created_at are never read).   *)
(*  - Sentiment scores are integers in thousandths (0.301 is 301).         *)
(*  - An exception is the name of its class; NoExc means none was raised.  *)
(***************************************************************************)
EXTENDS Integers, Sequences, FiniteSets, TLC

(***************************************************************************)
(* Bounds of the model                                                     *)
(***************************************************************************)
\* the clock runs over 0 .. MaxTime
MaxTime == 3
\* at most this many catalogue items are upstream at once
MaxOffers == 1
\* get_sentiment_score is asked for windows of 0 .. MaxDays days
MaxDays == 1
\* the ranking of get_news_sentiment is given at most this many scored records
MaxRecords == 13

\* slots of one calendar day ('%Y-%m-%d' keeps the day and drops the slot)
SlotsPerDay == 2

NoDate == -1
NoExc == "none"

Tickers == {"AAPL", "MSFT"}
Kinds == {"news", "social"}

Times == 0 .. MaxTime

Day(t) == t \div SlotsPerDay

(***************************************************************************)
(* Raw timestamps as the sources deliver them.  form names the shape of    *)
(* the string, t the wall-clock instant it denotes when it parses.         *)
(*   null      None                                                        *)
(*   empty     ''                                                          *)
(*   rfc_gmt   'Mon, 01 Jan 2024 10:00:00 GMT'                             *)
(*   iso       '2024-01-01T10:00:00'                                       *)
(*   iso_z     '2024-01-01T10:00:00Z'                                      *)
(*   rfc_num   'Tue, 02 Jan 2024 10:00:00 +0000'  (a T, no GMT/UTC marker) *)
(*   bad_gmt   'yesterday UTC'                                             *)
(*   bad_t     'Today'                                                     *)
(*   plain     '2024-01-01 10:00:00'                                       *)
(***************************************************************************)
RawForms ==
    {"null", "empty", "rfc_gmt", "iso", "iso_z", "rfc_num", "bad_gmt", "bad_t", "plain"}

Raw(form, t) == [form |-> form, t |-> t]

\* `not date_str`
IsFalsy(raw) == raw.form \in {"null", "empty"}

\* 'GMT' in date_str or 'UTC' in date_str
HasZoneMarker(raw) == raw.form \in {"rfc_gmt", "bad_gmt"}

\* 'T' in date_str
HasT(raw) == raw.form \in {"iso", "iso_z", "rfc_num", "bad_t", "rfc_gmt", "bad_gmt"}

\* email.utils.parsedate_to_datetime: the instant, or NoDate when it raises
parsedate_to_datetime(raw) ==
    IF raw.form \in {"rfc_gmt", "rfc_num"} THEN raw.t ELSE NoDate

\* a variant of fromisoformat without the replace('Z', '+00:00'), which
\* rejects a trailing Z; used to show that a property depends on the replace
fromisoformat_strict(raw) ==
    IF raw.form = "iso" THEN raw.t ELSE NoDate

\* datetime.fromisoformat(date_str.replace('Z', '+00:00')): the instant, or
\* NoDate when it raises ValueError
fromisoformat(raw) ==
    IF raw.form \in {"iso", "iso_z"} THEN raw.t ELSE NoDate

normalize_date(raw, clock) ==
    IF IsFalsy(raw) THEN clock
    ELSE IF HasZoneMarker(raw)
         THEN (IF parsedate_to_datetime(raw) # NoDate
               THEN parsedate_to_datetime(raw) ELSE clock)
    ELSE IF HasT(raw)
         THEN (IF fromisoformat(raw) # NoDate
               THEN fromisoformat(raw) ELSE clock)
    ELSE clock

(***************************************************************************)
(* Titles: the tickers a text mentions (substring match on the upper-cased *)
(* title and summary) and the compound score the analyzer gives the text.  *)
(***************************************************************************)
Titles == {"AAPL beats", "AAPL MSFT slump", "AAPL climbs"}

Mentions(title) ==
    CASE title = "AAPL MSFT slump" -> {"AAPL", "MSFT"}
      [] title \in {"AAPL beats", "AAPL climbs"} -> {"AAPL"}
      [] OTHER -> {}

analyze_sentiment(title) ==
    CASE title = "AAPL beats" -> 600
      [] title = "AAPL MSFT slump" -> -600
      [] title = "AAPL climbs" -> 301
      [] OTHER -> 0

(***************************************************************************)
(* What the sources can deliver.  An offer is one item of one endpoint:    *)
(* its title, summary/description, link and raw timestamp.  A link of ''   *)
(* is what the financial-data adapter stores when it finds no url.         *)
(***************************************************************************)
Offer(src, title, content, url, raw) ==
    [src |-> src, title |-> title, content |-> content, url |-> url, raw |-> raw]

Catalogue ==
    << Offer("yfinance", "AAPL beats", "q3", "", Raw("empty", 0)),
       Offer("rss", "AAPL MSFT slump", "", "u1", Raw("rfc_gmt", 2)),
       Offer("newsapi", "AAPL MSFT slump", "d", "u1", Raw("iso_z", 3)),
       Offer("stocktwits", "AAPL climbs", "AAPL climbs", "s1", Raw("iso_z", 1)) >>

OfferIds == 1 .. Len(Catalogue)

Upstreams == {u \in SUBSET OfferIds : Cardinality(u) <= MaxOffers}

(***************************************************************************)
(* Fetch units in the order the orchestrators run them.  Each unit is one  *)
(* try block around one fetch: the financial-data call, one news feed, one *)
(* REST query, the forum API, one social feed, the message stream.         *)
(***************************************************************************)
Units(kind) ==
    IF kind = "news"
    THEN << "yfinance", "rss", "newsapi_q1", "newsapi_q2" >>
    ELSE << "reddit", "social_rss", "stocktwits" >>

\* the endpoint a unit reads
Endpoint(unit) ==
    IF unit \in {"newsapi_q1", "newsapi_q2"} THEN "newsapi" ELSE unit

\* the exceptions a fetch is made to raise: a transport error, which every
\* except clause names, and a TypeError (a response of an unexpected shape,
\* as `data.get` on a JSON list or iterating a null), which only
\* `except Exception` covers
ExcKinds == {"RequestException", "TypeError"}

AllExceptions ==
    {"RequestException", "ValueError", "KeyError", "AttributeError", "TypeError",
     "PRAWException", "OSError"}

\* the exception classes the except clauses around a unit's fetch name
\* (`except Exception` names them all)
Catches(unit) ==
    CASE unit = "yfinance" -> {"RequestException", "ValueError"}
      [] unit \in {"rss", "social_rss"} -> AllExceptions
      [] unit \in {"newsapi_q1", "newsapi_q2"} -> {"RequestException", "ValueError", "KeyError"}
      [] unit = "reddit" -> {"PRAWException", "RequestException"}
      [] unit = "stocktwits" -> {"RequestException", "ValueError", "KeyError"}

\* units that keep an item only if the ticker occurs in its text
FiltersRelevance(unit) == unit \notin {"yfinance", "stocktwits"}

\* the provenance tag an adapter writes
SourceTag(unit) ==
    CASE unit = "yfinance" -> "yFinance"
      [] unit = "rss" -> "RSS"
      [] unit = "social_rss" -> "Reddit-RSS"
      [] unit \in {"newsapi_q1", "newsapi_q2"} -> "NewsAPI"
      [] unit = "reddit" -> "Reddit"
      [] unit = "stocktwits" -> "StockTwits"

(***************************************************************************)
(* Faults.  One call of an entry point meets at most one fault: a fetch    *)
(* unit raising an exception, or one database operation of one store       *)
(* failing with sqlite3.Error (for "init" also OSError).                   *)
(***************************************************************************)
DbOps == {"init", "latest", "store", "query"}

NoFault == [at |-> <<"no", "where">>, exc |-> NoExc]

UnitFaults(kind) ==
    {[at |-> <<"fetch", Units(kind)[i]>>, exc |-> e] : i \in 1 .. Len(Units(kind)), e \in ExcKinds}

DbFaults(kind) == {[at |-> <<kind, op>>, exc |-> "sqlite3.Error"] : op \in DbOps}

Faults(kind) == UnitFaults(kind) \cup DbFaults(kind)

\* the exception the fault raises in this unit's fetch, NoExc if it does not
\* strike there
RaisedAt(fault, unit) == IF fault.at = <<"fetch", unit>> THEN fault.exc ELSE NoExc

DbFails(fault, kind, op) == fault.at = <<kind, op>>

(***************************************************************************)
(* PersistenceStore: init_database, store_article / store_post,            *)
(* get_latest_published_date                                               *)
(***************************************************************************)
Row(ticker, title, content, url, source, published_at) ==
    [ticker |-> ticker, title |-> title, content |-> content, url |-> url,
     source |-> source, published_at |-> published_at]

\* url TEXT UNIQUE: a row with this url is in the table
UrlPresent(table, url) == \E r \in table : r.url = url

\* a variant of InsertOrIgnore that treats an empty url as SQL treats NULL,
\* never equal to another; used to show that a property depends on '' being
\* a value the constraint covers
InsertOrIgnoreNonEmpty(table, row) ==
    IF row.url # "" /\ (\E r \in table : r.url = row.url) THEN table
    ELSE table \cup {row}

\* a variant of InsertOrIgnore without the url constraint (plain INSERT, url
\* not UNIQUE); used to show that a property depends on the constraint
InsertAlways(table, row) == table \cup {row}

\* a variant of InsertOrIgnore that overwrites the row holding the url
\* (INSERT OR REPLACE); used to show that a property depends on OR IGNORE
InsertOrReplace(table, row) == {r \in table : r.url # row.url} \cup {row}

\* INSERT OR IGNORE INTO ... VALUES (...)
InsertOrIgnore(table, row) ==
    IF UrlPresent(table, row.url) THEN table ELSE table \cup {row}

\* the table after the call and the boolean the call returns; exists is
\* whether CREATE TABLE has run (without it the INSERT raises sqlite3.Error)
store_article(table, exists, failed, row) ==
    IF failed \/ ~exists
    THEN [table |-> table, ret |-> FALSE]
    ELSE [table |-> InsertOrIgnore(table, row), ret |-> TRUE]

MaxOf(S) == CHOOSE x \in S : \A y \in S : y <= x

\* a variant of MaxPublished that takes the earliest date (MIN for MAX); used
\* to show that a property depends on the aggregate
MinPublished(table, ticker) ==
    LET ds == {r.published_at : r \in {x \in table : x.ticker = ticker}}
    IN IF ds = {} THEN NoDate ELSE CHOOSE x \in ds : \A y \in ds : x <= y

\* SELECT MAX(published_at) FROM ... WHERE ticker = ?
MaxPublished(table, ticker) ==
    LET ds == {r.published_at : r \in {x \in table : x.ticker = ticker}}
    IN IF ds = {} THEN NoDate ELSE MaxOf(ds)

\* a variant of get_latest_published_date that never finds a watermark; used
\* to show that a property depends on the watermark being read
NoWatermark(table, exists, failed, ticker) == NoDate

get_latest_published_date(table, exists, failed, ticker) ==
    IF failed \/ ~exists THEN NoDate ELSE MaxPublished(table, ticker)

\* a variant of CreateIfNotExists that creates the table anew (DROP TABLE,
\* CREATE TABLE); used to show that a property depends on IF NOT EXISTS
CreateAnew(table, exists) == {}

\* CREATE TABLE IF NOT EXISTS news (...): the rows of the table after it
CreateIfNotExists(table, exists) == IF exists THEN table ELSE {}

\* os.makedirs + CREATE TABLE IF NOT EXISTS: whether the table exists after
\* the call, and whether the call raised
init_database(exists, failed) ==
    IF failed THEN [exists |-> exists, raised |-> TRUE]
    ELSE [exists |-> TRUE, raised |-> FALSE]

(***************************************************************************)
(* SourceAdapters: what one fetch unit appends to the run's list           *)
(***************************************************************************)
Candidate(title, content, url, source, published_at) ==
    [title |-> title, content |-> content, url |-> url, source |-> source,
     published_at |-> published_at]

\* a variant of SkippedAsOld that lets an item dated exactly at the watermark
\* through (< for <=); used to show that a property depends on the comparison
SkippedIfOlder(latest_date, date) == latest_date # NoDate /\ date < latest_date

\* `if latest_date and article_date <= latest_date: continue`
SkippedAsOld(latest_date, date) == latest_date # NoDate /\ date <= latest_date

\* `if ticker.upper() in text`
Relevant(unit, ticker, title) == ~FiltersRelevance(unit) \/ ticker \in Mentions(title)

\* what the unit keeps of the catalogue's i-th item
Kept(unit, i, ticker, latest_date, date, up) ==
    IF i \in up /\ Catalogue[i].src = Endpoint(unit)
       /\ ~SkippedAsOld(latest_date, date)
       /\ Relevant(unit, ticker, Catalogue[i].title)
    THEN << Candidate(Catalogue[i].title, Catalogue[i].content, Catalogue[i].url,
                      SourceTag(unit), date) >>
    ELSE << >>

\* the unit's candidates from the catalogue's i-th item on, in the order the
\* source lists them
RECURSIVE Candidates(_, _, _, _, _, _)
Candidates(unit, i, ticker, latest_date, clock, up) ==
    IF i > Len(Catalogue) THEN << >>
    ELSE Kept(unit, i, ticker, latest_date, normalize_date(Catalogue[i].raw, clock), up)
         \o Candidates(unit, i + 1, ticker, latest_date, clock, up)

\* NEWSAPI_KEY absent: the two REST queries are not run
Enabled(unit, key) == unit \notin {"newsapi_q1", "newsapi_q2"} \/ key

\* one unit's turn: acc is what the units before it left
FetchStep(acc, u, e, mine) ==
    IF e # NoExc /\ e \notin Catches(u)
    THEN [articles |-> acc.articles, invoked |-> acc.invoked \cup {u}, exc |-> e]
    ELSE [articles |-> acc.articles \o (IF e # NoExc THEN << >> ELSE mine),
          invoked |-> acc.invoked \cup {u}, exc |-> NoExc]

\* the units from the i-th on, run in order: the candidates gathered, the
\* units whose fetch was started, and the exception that left the function
RECURSIVE Fetch(_, _, _, _, _, _, _, _, _)
Fetch(acc, units, i, ticker, latest_date, clock, up, key, fault) ==
    IF i > Len(units) \/ acc.exc # NoExc THEN acc
    ELSE IF ~Enabled(units[i], key)
    THEN Fetch(acc, units, i + 1, ticker, latest_date, clock, up, key, fault)
    ELSE Fetch(FetchStep(acc, units[i], RaisedAt(fault, units[i]),
                         Candidates(units[i], 1, ticker, latest_date, clock, up)),
               units, i + 1, ticker, latest_date, clock, up, key, fault)

\* one `if store_article(...): stored += 1`; added and skipped count the
\* INSERTs that added a row and those the url constraint ignored
StoreStep(acc, r) ==
    [table |-> r.table,
     stored |-> acc.stored + (IF r.ret THEN 1 ELSE 0),
     added |-> acc.added + (IF r.table # acc.table THEN 1 ELSE 0),
     skipped |-> acc.skipped + (IF r.ret /\ r.table = acc.table THEN 1 ELSE 0)]

\* `for ... in articles: if store_article(...): stored += 1`, from the i-th
\* article on
RECURSIVE StoreAll(_, _, _, _, _, _)
StoreAll(acc, exists, failed, ticker, articles, i) ==
    IF i > Len(articles) THEN acc
    ELSE StoreAll(StoreStep(acc,
                            store_article(acc.table, exists, failed,
                                          Row(ticker, articles[i].title,
                                              articles[i].content, articles[i].url,
                                              articles[i].source,
                                              articles[i].published_at))),
                  exists, failed, ticker, articles, i + 1)

(***************************************************************************)
(* CollectionOrchestrator: collect_news_for_ticker and                     *)
(* collect_social_for_ticker.  outcome is "returned" with the value ret,   *)
(* or "raised" with the exception exc that left the function.              *)
(***************************************************************************)
\* the run after the store loop
CollectStored(init, latest_date, got, put) ==
    [outcome |-> "returned", exc |-> NoExc, ret |-> put.stored,
     table |-> put.table, exists |-> init.exists, latest_date |-> latest_date,
     articles |-> got.articles, invoked |-> got.invoked,
     added |-> put.added, skipped |-> put.skipped]

\* the run after the adapters: an exception none of their except clauses
\* names leaves the function before anything is stored
CollectFetched(kind, table, ticker, fault, init, latest_date, got) ==
    IF got.exc # NoExc
    THEN [outcome |-> "raised", exc |-> got.exc, ret |-> 0, table |-> table,
          exists |-> init.exists, latest_date |-> latest_date,
          articles |-> got.articles, invoked |-> got.invoked,
          added |-> 0, skipped |-> 0]
    ELSE CollectStored(init, latest_date, got,
             StoreAll([table |-> table, stored |-> 0, added |-> 0, skipped |-> 0],
                      init.exists, DbFails(fault, kind, "store"),
                      ticker, got.articles, 1))

\* the run after the watermark is read
CollectFrom(kind, table, ticker, clock, up, key, fault, init, latest_date) ==
    CollectFetched(kind, table, ticker, fault, init, latest_date,
        Fetch([articles |-> << >>, invoked |-> {}, exc |-> NoExc],
              Units(kind), 1, ticker, latest_date, clock, up, key, fault))

\* the run after init_database(): `except Exception: return 0`
CollectInit(kind, table, exists, ticker, clock, up, key, fault, init) ==
    IF init.raised
    THEN [outcome |-> "returned", exc |-> NoExc, ret |-> 0, table |-> table,
          exists |-> exists, latest_date |-> NoDate, articles |-> << >>,
          invoked |-> {}, added |-> 0, skipped |-> 0]
    ELSE CollectFrom(kind, table, ticker, clock, up, key, fault, init,
             get_latest_published_date(table, init.exists,
                                       DbFails(fault, kind, "latest"), ticker))

collect_for_ticker(kind, table, exists, ticker, clock, up, key, fault) ==
    CollectInit(kind,
                IF DbFails(fault, kind, "init") THEN table
                ELSE CreateIfNotExists(table, exists),
                exists, ticker, clock, up, key, fault,
                init_database(exists, DbFails(fault, kind, "init")))

collect_news_for_ticker(table, exists, ticker, clock, up, key, fault) ==
    collect_for_ticker("news", table, exists, ticker, clock, up, key, fault)

collect_social_for_ticker(table, exists, ticker, clock, up, fault) ==
    collect_for_ticker("social", table, exists, ticker, clock, up, TRUE, fault)

(***************************************************************************)
(* SentimentAggregator: get_news_sentiment, get_social_sentiment,          *)
(* get_sentiment_score                                                     *)
(***************************************************************************)
\* sorted_articles[:10] and sorted_articles[-10:]
TopN == 10
\* `overall_sentiment > 0.1` and `overall_sentiment < -0.1`, in thousandths
PositiveAbove == 100
NegativeBelow == -100

\* round(num / den, 3) on thousandths: the nearest integer to num / den, an
\* exact half going to the even neighbour (Python's round)
Round3(num, den) ==
    LET q == num \div den
        r == num % den
    IN IF 2 * r < den THEN q
       ELSE IF 2 * r > den THEN q + 1
       ELSE IF q % 2 = 0 THEN q ELSE q + 1

\* (datetime.now() - timedelta(days=days)).strftime('%Y-%m-%d'): the day,
\* without the time of day
DateLimit(clock, days) == Day(clock - days * SlotsPerDay)

\* a variant of Query that leaves out the ticker condition; used to show that
\* a property depends on the rows being the ticker's
QueryAnyTicker(table, ticker, days, clock) ==
    {r \in table : r.published_at \div SlotsPerDay
                      >= (clock - days * SlotsPerDay) \div SlotsPerDay}

\* WHERE ticker = ? AND published_at >= ?  with a day-only right-hand side:
\* 'YYYY-MM-DD HH:MM:SS' >= 'YYYY-MM-DD' holds from the first second of the day
Query(table, ticker, days, clock) ==
    {r \in table : r.ticker = ticker /\ Day(r.published_at) >= DateLimit(clock, days)}

Scored(r) ==
    [title |-> r.title, url |-> r.url, published_at |-> r.published_at,
     sentiment |-> analyze_sentiment(r.title)]

RECURSIVE SumSentiment(_)
SumSentiment(S) ==
    IF S = {} THEN 0
    ELSE LET x == CHOOSE y \in S : TRUE
         IN x.sentiment + SumSentiment(S \ {x})

\* sorted(article_sentiments, key=sentiment, reverse=True); rows of equal
\* score come in the order the SELECT returned them, which nothing fixes
RECURSIVE SortedDesc(_)
SortedDesc(S) ==
    IF S = {} THEN << >>
    ELSE LET x == CHOOSE y \in S : \A z \in S : z.sentiment <= y.sentiment
         IN << x >> \o SortedDesc(S \ {x})

Min(a, b) == IF a < b THEN a ELSE b

Head10(seq) == SubSeq(seq, 1, Min(Len(seq), TopN))

Tail10(seq) == SubSeq(seq, Len(seq) - Min(Len(seq), TopN) + 1, Len(seq))

Reversed(seq) == [i \in 1 .. Len(seq) |-> seq[Len(seq) + 1 - i]]

\* a variant of IsPositive that lets a score of 0 through (>= for >); used to
\* show that a property depends on the comparison
IsNonNegative(a) == a.sentiment >= 0

IsPositive(a) == a.sentiment > 0

IsNegative(a) == a.sentiment < 0

\* the dict get_news_sentiment builds from the scored rows
NewsData(article_sentiments, sorted_articles) ==
    [count |-> Cardinality(article_sentiments),
     sentiment |-> Round3(SumSentiment(article_sentiments),
                          Cardinality(article_sentiments)),
     top_positive |-> SelectSeq(Head10(sorted_articles), IsPositive),
     top_negative |-> Reversed(SelectSeq(Tail10(sorted_articles), IsNegative))]

NewsScored(article_sentiments) ==
    IF article_sentiments = {}
    THEN [count |-> 0, sentiment |-> 0, top_positive |-> << >>, top_negative |-> << >>]
    ELSE NewsData(article_sentiments, SortedDesc(article_sentiments))

get_news_sentiment(table, exists, failed, ticker, days, clock) ==
    IF failed \/ ~exists
    THEN [count |-> 0, sentiment |-> 0, top_positive |-> << >>,
          top_negative |-> << >>, error |-> "sqlite3.Error"]
    ELSE NewsScored({Scored(r) : r \in Query(table, ticker, days, clock)})

SocialScored(sentiments) ==
    IF sentiments = {}
    THEN [count |-> 0, sentiment |-> 0]
    ELSE [count |-> Cardinality(sentiments),
          sentiment |-> Round3(SumSentiment(sentiments), Cardinality(sentiments))]

get_social_sentiment(table, exists, failed, ticker, days, clock) ==
    IF failed \/ ~exists
    THEN [count |-> 0, sentiment |-> 0, error |-> "sqlite3.Error"]
    ELSE SocialScored({Scored(r) : r \in Query(table, ticker, days, clock)})

\* news_data.get("top_positive", [])
GetOr(d, key, default) == IF key \in DOMAIN d THEN d[key] ELSE default

\* total_count = news_data["count"] + social_data["count"]
total_count(news_data, social_data) == news_data.count + social_data.count

\* news_data["sentiment"] * news_data["count"]
\*   + social_data["sentiment"] * social_data["count"]
WeightedSum(news_data, social_data) ==
    news_data.sentiment * news_data.count + social_data.sentiment * social_data.count

\* a variant of OverallScore that averages the two side scores without their
\* counts; used to show that a property depends on the weighting
MeanOfMeans(news_data, social_data) ==
    IF total_count(news_data, social_data) = 0 THEN 0
    ELSE Round3(news_data.sentiment + social_data.sentiment, 2)

\* round(overall_sentiment, 3), overall_sentiment being the weighted sum over
\* total_count, 0.0 when total_count = 0
OverallScore(news_data, social_data) ==
    IF total_count(news_data, social_data) = 0 THEN 0
    ELSE Round3(WeightedSum(news_data, social_data), total_count(news_data, social_data))

\* the label, decided on overall_sentiment before it is rounded
sentiment_label(news_data, social_data) ==
    IF total_count(news_data, social_data) = 0 THEN "Neutral"
    ELSE IF WeightedSum(news_data, social_data)
            > PositiveAbove * total_count(news_data, social_data) THEN "Positive"
    ELSE IF WeightedSum(news_data, social_data)
            < NegativeBelow * total_count(news_data, social_data) THEN "Negative"
    ELSE "Neutral"

\* the part of get_sentiment_score after the two collections: the dict it
\* serialises
Summarize(news_data, social_data, ticker, days, clock) ==
    [ticker |-> ticker,
     analysis_period_days |-> days,
     timestamp |-> clock,
     overall_sentiment |-> [score |-> OverallScore(news_data, social_data),
                            label |-> sentiment_label(news_data, social_data)],
     news_sentiment |-> [score |-> news_data.sentiment,
                         article_count |-> news_data.count],
     social_sentiment |-> [score |-> social_data.sentiment,
                           post_count |-> social_data.count],
     total_data_points |-> total_count(news_data, social_data),
     top_positive_news |-> GetOr(news_data, "top_positive", << >>),
     top_negative_news |-> GetOr(news_data, "top_negative", << >>)]

\* get_sentiment_score after the two collections returned
Scoring(n, s, ticker, days, clock, news_data, social_data) ==
    [outcome |-> "returned", exc |-> NoExc,
     tables |-> [news |-> n.table, social |-> s.table],
     exists |-> [news |-> n.exists, social |-> s.exists],
     news_data |-> news_data, social_data |-> social_data,
     result |-> Summarize(news_data, social_data, ticker, days, clock)]

\* get_sentiment_score after collect_news_for_ticker returned n
Refreshed(n, s, ticker, days, clock, fault) ==
    IF s.outcome = "raised"
    THEN [outcome |-> "raised", exc |-> s.exc,
          tables |-> [news |-> n.table, social |-> s.table],
          exists |-> [news |-> n.exists, social |-> s.exists]]
    ELSE Scoring(n, s, ticker, days, clock,
                 get_news_sentiment(n.table, n.exists, DbFails(fault, "news", "query"),
                                    ticker, days, clock),
                 get_social_sentiment(s.table, s.exists,
                                      DbFails(fault, "social", "query"),
                                      ticker, days, clock))

NewsRefreshed(tabs, exs, n, ticker, days, clock, up, fault) ==
    IF n.outcome = "raised"
    THEN [outcome |-> "raised", exc |-> n.exc,
          tables |-> tabs, exists |-> [exs EXCEPT !["news"] = n.exists]]
    ELSE Refreshed(n,
                   collect_social_for_ticker(tabs["social"], exs["social"], ticker,
                                             clock, up, fault),
                   ticker, days, clock, fault)

\* get_sentiment_score on the two tables: what leaves the function, the
\* tables after it, and what the two queries returned
get_sentiment_score(tabs, exs, ticker, days, clock, up, key, fault) ==
    NewsRefreshed(tabs, exs,
                  collect_news_for_ticker(tabs["news"], exs["news"], ticker, clock, up,
                                          key, fault),
                  ticker, days, clock, up, fault)

(***************************************************************************)
(* State                                                                   *)
(*   running   the module this process runs: the news collector ("news"),  *)
(*             the social collector ("social") or the sentiment analyzer   *)
(*             ("sentiment").  The two stores are separate database files  *)
(*             and a collector touches only its own.                       *)
(*   tables    the rows of news.db/news and social.db/social_posts         *)
(*   exists    whether each table has been created                         *)
(*   clock     datetime.now()                                              *)
(*   upstream  the catalogue items the sources currently deliver           *)
(*   fresh     the store, ticker and API-key setting of the last           *)
(*             fault-free collection run, if nothing but the clock has     *)
(*             changed since (NoRun otherwise)                             *)
(*   last      the call of an entry point that has just ended and what     *)
(*             came of it (Idle after a step of the environment)           *)
(***************************************************************************)
VARIABLES running, tables, exists, clock, upstream, fresh, last

vars == << running, tables, exists, clock, upstream, fresh, last >>

Idle == [op |-> "none"]

Run(kind, ticker, key) == [kind |-> kind, ticker |-> ticker, key |-> key]

NoRun == Run("-", "-", FALSE)

\* the units of a store's adapters
UnitSet(kind) == {Units(kind)[i] : i \in 1 .. Len(Units(kind))}

\* the catalogue items of a store's sources
OffersOf(kind) == {i \in OfferIds : \E u \in UnitSet(kind) : Endpoint(u) = Catalogue[i].src}

\* the row an adapter of the store builds from the catalogue's i-th item
RowOf(i, unit, ticker, now) ==
    Row(ticker, Catalogue[i].title, Catalogue[i].content, Catalogue[i].url,
        SourceTag(unit), normalize_date(Catalogue[i].raw, now))

\* a collector process starts on empty disk
Init ==
    /\ running \in Kinds
    /\ tables = [k \in Kinds |-> {}]
    /\ exists = [k \in Kinds |-> FALSE]
    /\ clock = 0
    /\ upstream = {}
    /\ fresh = NoRun
    /\ last = Idle

\* the caller takes the result of the call that has ended
Return ==
    /\ last # Idle
    /\ last' = Idle
    /\ UNCHANGED << running, tables, exists, clock, upstream, fresh >>

\* time passes
Tick ==
    /\ last = Idle
    /\ clock < MaxTime
    /\ clock' = clock + 1
    /\ UNCHANGED << running, tables, exists, upstream, fresh, last >>

\* the sources of the running collector deliver something else
Publish ==
    /\ last = Idle
    /\ \E u \in Upstreams : /\ u # upstream
                            /\ u \subseteq OffersOf(running)
                            /\ upstream' = u
    /\ fresh' = NoRun
    /\ UNCHANGED << running, tables, exists, clock, last >>

\* init_database() called on its own
InitDatabase ==
    /\ last = Idle
    /\ \E kind \in {running} \cap Kinds, failed \in BOOLEAN :
      \E r \in {init_database(exists[kind], failed)} :
        /\ exists' = [exists EXCEPT ![kind] = r.exists]
        /\ tables' = [tables EXCEPT ![kind] =
                         IF failed THEN tables[kind]
                         ELSE CreateIfNotExists(tables[kind], exists[kind])]
        /\ last' = [op |-> "init", kind |-> kind, raised |-> r.raised]
        /\ UNCHANGED << running, clock, upstream, fresh >>

\* store_article(...) / store_post(...) called on its own
StoreRecord ==
    /\ last = Idle
    /\ \E kind \in {running} \cap Kinds, ticker \in Tickers, i \in OfferIds,
       failed \in BOOLEAN :
      \E unit \in {u \in UnitSet(kind) : Endpoint(u) = Catalogue[i].src} :
        \E r \in {store_article(tables[kind], exists[kind], failed,
                                RowOf(i, unit, ticker, clock))} :
          /\ tables' = [tables EXCEPT ![kind] = r.table]
          /\ fresh' = NoRun
          /\ last' = [op |-> "store", kind |-> kind, url |-> Catalogue[i].url,
                      ret |-> r.ret,
                      present |-> UrlPresent(tables[kind], Catalogue[i].url),
                      inserted |-> r.table # tables[kind]]
          /\ UNCHANGED << running, exists, clock, upstream >>

\* get_latest_published_date(...) called on its own
LatestPublished ==
    /\ last = Idle
    /\ \E kind \in {running} \cap Kinds, ticker \in Tickers, failed \in BOOLEAN :
        /\ last' = [op |-> "latest", kind |-> kind, ticker |-> ticker,
                    failed |-> failed \/ ~exists[kind],
                    value |-> get_latest_published_date(tables[kind], exists[kind],
                                                        failed, ticker)]
        /\ UNCHANGED << running, tables, exists, clock, upstream, fresh >>

\* the published_at values of a list of candidates
RECURSIVE DatesOf(_, _)
DatesOf(articles, i) ==
    IF i > Len(articles) THEN {}
    ELSE {articles[i].published_at} \cup DatesOf(articles, i + 1)

\* one run of collect_news_for_ticker / collect_social_for_ticker
Collect ==
    /\ last = Idle
    /\ \E kind \in {running} \cap Kinds, ticker \in Tickers :
      \E fault \in Faults(kind) \cup {NoFault},
         key \in IF kind = "news" THEN BOOLEAN ELSE {TRUE} :
        \E r \in {collect_for_ticker(kind, tables[kind], exists[kind], ticker,
                                     clock, upstream, key, fault)} :
          /\ tables' = [tables EXCEPT ![kind] = r.table]
          /\ exists' = [exists EXCEPT ![kind] = r.exists]
          /\ fresh' = IF fault = NoFault /\ r.outcome = "returned"
                      THEN Run(kind, ticker, key) ELSE NoRun
          /\ last' = [op |-> "collect", kind |-> kind, ticker |-> ticker,
                      key |-> key, fault |-> fault,
                      outcome |-> r.outcome, exc |-> r.exc, ret |-> r.ret,
                      latest_date |-> r.latest_date,
                      collected |-> Len(r.articles),
                      dates |-> DatesOf(r.articles, 1),
                      invoked |-> r.invoked,
                      added |-> r.added, skipped |-> r.skipped,
                      repeat |-> fresh = Run(kind, ticker, key),
                      latest_before |-> MaxPublished(tables[kind], ticker)]
          /\ UNCHANGED << running, clock, upstream >>

Next ==
    \/ Return
    \/ Tick
    \/ Publish
    \/ InitDatabase
    \/ StoreRecord
    \/ LatestPublished
    \/ Collect

Spec == Init /\ [][Next]_vars

(***************************************************************************)
(* The sentiment analyzer: a process that finds the two stores as earlier  *)
(* collector processes left them and calls get_sentiment_score once.       *)
(***************************************************************************)
\* the rows a store can hold at time now
PossibleRows(kind, now) ==
    UNION {{RowOf(i, u, t, n) : u \in {x \in UnitSet(kind) : Endpoint(x) = Catalogue[i].src},
                                t \in Tickers, n \in 0 .. now} : i \in OffersOf(kind)}

UniqueUrls(table) == \A r1, r2 \in table : r1.url = r2.url => r1 = r2

Stores(kind, now) ==
    {T \in SUBSET PossibleRows(kind, now) : UniqueUrls(T)}

InitSummary ==
    /\ running = "sentiment"
    /\ clock \in Times
    /\ \E n \in Stores("news", clock), s \in Stores("social", clock) :
           tables = [news |-> n, social |-> s]
    /\ exists \in [Kinds -> BOOLEAN]
    /\ \A k \in Kinds : tables[k] # {} => exists[k]
    /\ upstream \in Upstreams
    /\ fresh = NoRun
    /\ last = Idle

\* nothing was returned
NoResult == [ticker |-> "-"]

\* one call of get_sentiment_score(ticker, days)
GetSentimentScore ==
    /\ running = "sentiment"
    /\ last = Idle
    /\ \E ticker \in Tickers, days \in 0 .. MaxDays, key \in BOOLEAN,
          fault \in Faults("news") \cup Faults("social") \cup {NoFault} :
         \E r \in {get_sentiment_score(tables, exists, ticker, days, clock, upstream,
                                       key, fault)} :
           /\ tables' = r.tables
           /\ exists' = r.exists
           /\ last' = [op |-> "summary", ticker |-> ticker, days |-> days,
                       fault |-> fault, outcome |-> r.outcome, exc |-> r.exc,
                       news_error |-> "error" \in DOMAIN GetOr(r, "news_data", << >>),
                       social_error |-> "error" \in DOMAIN GetOr(r, "social_data", << >>),
                       result |-> GetOr(r, "result", NoResult)]
           /\ UNCHANGED << running, clock, upstream, fresh >>

NextSummary == GetSentimentScore

SpecSummary == InitSummary /\ [][NextSummary]_vars

(***************************************************************************)
(* Properties of the stores and of a collection run, under Spec            *)
(***************************************************************************)
\* the rows a store holds for a ticker
RowsOf(kind, ticker) == {r \in tables[kind] : r.ticker = ticker}

\* C1: store() returns true exactly when the call newly inserted a row, and
\* false when the row was already present or the insert failed.
C1_StoreReturnsTrueIffInserted ==
    last.op = "store" => (last.ret <=> last.inserted)

\* C2: a store() of a record whose non-empty url is already in the store
\* leaves the store as it was: no row added, none overwritten.
C2_PresentUrlLeavesStoreUnchanged ==
    [][(last'.op = "store" /\ last'.present /\ last'.url # "") => tables' = tables]_vars

\* a store() of a url that was already present has returned without an error
C2_Witness_StoredPresentUrl ==
    last.op = "store" /\ last.present /\ last.url # "" /\ last.ret

\* C3: a run that follows a fault-free run for the same ticker, with the
\* upstream items and the store untouched in between, adds no row.
C3_RepeatedRunAddsNothing ==
    (last.op = "collect" /\ last.repeat /\ last.fault = NoFault) => last.added = 0

\* C4: the count a fault-free run returns is the number of rows it added, and
\* collected minus that count is the number of candidates the url constraint
\* skipped.
C4_StoredCountIsRowsAdded ==
    (last.op = "collect" /\ last.outcome = "returned" /\ last.fault = NoFault)
        => /\ last.ret = last.added
           /\ last.collected - last.ret = last.skipped

\* C5: whatever exception one adapter's fetch raises, the run returns and has
\* invoked every adapter it is configured to run.
C5_SourceIsolation ==
    (last.op = "collect" /\ last.fault.at[1] = "fetch")
        => /\ last.outcome = "returned"
           /\ last.invoked = {u \in UnitSet(last.kind) : Enabled(u, last.key)}

\* C6: with a watermark read, no candidate the adapters contribute to the run
\* is dated at or before it.
C6_NoCandidateAtOrBeforeWatermark ==
    (last.op = "collect" /\ last.latest_date # NoDate)
        => \A d \in last.dates : d > last.latest_date

\* a run that read a watermark and still gathered a candidate
C6_Witness_CandidateAfterWatermark ==
    last.op = "collect" /\ last.latest_date # NoDate /\ last.collected > 0

C8_FailedSideCarriesError ==
    (last.op = "summary" /\ last.outcome = "returned")
        => /\ last.news_error
                => /\ last.result.news_sentiment = [score |-> 0, article_count |-> 0]
                   /\ "error" \in DOMAIN last.result
           /\ last.social_error
                => /\ last.result.social_sentiment = [score |-> 0, post_count |-> 0]
                   /\ "error" \in DOMAIN last.result

\* C9: get_sentiment_score returns a summary and lets no exception through,
\* whatever fault the call meets.
C9_NeverPropagates ==
    last.op = "summary" => last.outcome = "returned"

\* C10 as stated: the reported overall score is exactly the count-weighted
\* average of the two reported side scores.
C10_ScoreIsExactWeightedAverage ==
    (last.op = "summary" /\ last.outcome = "returned"
     /\ last.result.total_data_points > 0)
        => last.result.overall_sentiment.score * last.result.total_data_points
             = last.result.news_sentiment.score * last.result.news_sentiment.article_count
               + last.result.social_sentiment.score * last.result.social_sentiment.post_count

\* |a|
Abs(a) == IF a < 0 THEN -a ELSE a

\* C10: the reported overall score is the count-weighted average of the two
\* reported side scores rounded to three decimals (within half a thousandth
\* of it), and 0 when the total count is 0.
C10_ScoreIsRoundedWeightedAverage ==
    (last.op = "summary" /\ last.outcome = "returned")
        => IF last.result.total_data_points = 0
           THEN last.result.overall_sentiment.score = 0
           ELSE /\ last.result.total_data_points
                     = last.result.news_sentiment.article_count
                       + last.result.social_sentiment.post_count
                /\ 2 * Abs(last.result.overall_sentiment.score
                             * last.result.total_data_points
                           - (last.result.news_sentiment.score
                                * last.result.news_sentiment.article_count
                              + last.result.social_sentiment.score
                                * last.result.social_sentiment.post_count))
                     <= last.result.total_data_points

\* a summary over both sides, with unequal counts and unequal scores
C10_Witness_BothSidesCounted ==
    /\ last.op = "summary" /\ last.outcome = "returned"
    /\ last.result.news_sentiment.article_count > last.result.social_sentiment.post_count
    /\ last.result.social_sentiment.post_count > 0
    /\ last.result.news_sentiment.score # last.result.social_sentiment.score

\* C11: in a returned summary the label is "Positive" exactly when the
\* reported overall score is above 0.1, "Negative" exactly when it is below
\* -0.1, and "Neutral" otherwise.
C11_LabelAgreesWithReportedScore ==
    (last.op = "summary" /\ last.outcome = "returned")
        => last.result.overall_sentiment.label
             = (IF last.result.overall_sentiment.score > PositiveAbove THEN "Positive"
                ELSE IF last.result.overall_sentiment.score < NegativeBelow THEN "Negative"
                ELSE "Neutral")

(***************************************************************************)
(* The ranking of get_news_sentiment on its own: the scored records of one *)
(* query, of any size up to MaxRecords, turned into the dict the function  *)
(* returns.                                                                *)
(***************************************************************************)
\* the compound scores the ranked records take
RankScores == {-600, -301, 0, 301, 600}

\* how many records take each score
Tallies ==
    {c \in [RankScores -> 0 .. MaxRecords] :
        c[-600] + c[-301] + c[0] + c[301] + c[600] <= MaxRecords}

\* the scored records of a tally: article_sentiments, one dict per row, the
\* rows told apart by their url
ArticleSentiments(c) ==
    UNION {{[title |-> "t", url |-> << v, j >>, published_at |-> 0, sentiment |-> v]
              : j \in 1 .. c[v]} : v \in RankScores}

InitRanking ==
    /\ running = "ranking"
    /\ tables = [k \in Kinds |-> {}]
    /\ exists = [k \in Kinds |-> FALSE]
    /\ clock = 0
    /\ upstream = {}
    /\ fresh = NoRun
    /\ last = Idle

\* lines 78-103 of get_news_sentiment on one list of scored rows
RankNews ==
    /\ running = "ranking"
    /\ last = Idle
    /\ \E c \in Tallies :
         \E S \in {ArticleSentiments(c)} :
           last' = [op |-> "rank", article_sentiments |-> S, data |-> NewsScored(S)]
    /\ UNCHANGED << running, tables, exists, clock, upstream, fresh >>

NextRanking == RankNews

SpecRanking == InitRanking /\ [][NextRanking]_vars

\* the elements of a list
Range(seq) == {seq[i] : i \in 1 .. Len(seq)}

\* seq lists exactly the (up to) TopN records of S that come first when S is
\* ordered by sign * score, descending, each once and in that order
ListsTopOf(seq, S, sign) ==
    /\ Len(seq) = Min(TopN, Cardinality(S))
    /\ Cardinality(Range(seq)) = Len(seq)
    /\ Range(seq) \subseteq S
    /\ \A i, j \in 1 .. Len(seq) :
         i < j => sign * seq[i].sentiment >= sign * seq[j].sentiment
    /\ \A a \in S \ Range(seq), b \in Range(seq) :
         sign * a.sentiment <= sign * b.sentiment

\* C12: top_positive lists exactly the (up to) 10 highest-scoring records
\* with score > 0, highest first; top_negative lists exactly the (up to) 10
\* lowest-scoring records with score < 0, most negative first; a record of
\* score 0 is in neither list and no record is in both.
C12_TopListsAreTheExtremes ==
    last.op = "rank"
        => /\ ListsTopOf(last.data.top_positive,
                         {a \in last.article_sentiments : a.sentiment > 0}, 1)
           /\ ListsTopOf(last.data.top_negative,
                         {a \in last.article_sentiments : a.sentiment < 0}, -1)
           /\ Range(last.data.top_positive) \cap Range(last.data.top_negative) = {}
           /\ \A a \in Range(last.data.top_positive) \cup Range(last.data.top_negative) :
                a.sentiment # 0

\* a ranking of more than 10 positive records beside a zero and a negative one
C12_Witness_MoreThanTenPositive ==
    /\ last.op = "rank"
    /\ Cardinality({a \in last.article_sentiments : a.sentiment > 0}) > TopN
    /\ \E a \in last.article_sentiments : a.sentiment = 0
    /\ \E a \in last.article_sentiments : a.sentiment < 0
    /\ Len(last.data.top_positive) = TopN
    /\ Len(last.data.top_negative) = 1

\* the rows of a ticker published at or after the instant now - days
SinceInstant(table, ticker, days, now) ==
    {r \in table : r.ticker = ticker /\ r.published_at >= now - days * SlotsPerDay}

\* C13: the records a summary scores are exactly the stored records of the
\* ticker with published_at >= now - days, to the instant: a record earlier
\* than that instant on the same calendar day is left out.
C13_WindowIsToTheInstant ==
    (last.op = "summary" /\ last.outcome = "returned")
        => /\ ~last.news_error
                => last.result.news_sentiment.article_count
                     = Cardinality(SinceInstant(tables["news"], last.ticker,
                                                last.days, clock))
           /\ ~last.social_error
                => last.result.social_sentiment.post_count
                     = Cardinality(SinceInstant(tables["social"], last.ticker,
                                                last.days, clock))

\* the rows the two SELECTs of a summary return: the ticker's, from the
\* calendar day of now - days on
Found(kind, ticker, days, now) ==
    {r \in tables[kind] : r.ticker = ticker /\ Day(r.published_at) >= DateLimit(now, days)}

\* C14: when the queries find no news row and no social row of the ticker in
\* the window, the summary has overall score 0, label "Neutral", both counts
\* 0 and empty top lists.
C14_ZeroData ==
    (last.op = "summary" /\ last.outcome = "returned"
     /\ Found("news", last.ticker, last.days, clock) = {}
     /\ Found("social", last.ticker, last.days, clock) = {})
        => /\ last.result.overall_sentiment = [score |-> 0, label |-> "Neutral"]
           /\ last.result.news_sentiment = [score |-> 0, article_count |-> 0]
           /\ last.result.social_sentiment = [score |-> 0, post_count |-> 0]
           /\ last.result.total_data_points = 0
           /\ last.result.top_positive_news = << >>
           /\ last.result.top_negative_news = << >>

\* a summary of a ticker with nothing in the window, over stores that both
\* hold rows (of the other ticker, or older than the window), with no fault
C14_Witness_NothingInWindow ==
    /\ last.op = "summary" /\ last.outcome = "returned" /\ last.fault = NoFault
    /\ tables["news"] # {} /\ tables["social"] # {}
    /\ Found("news", last.ticker, last.days, clock) = {}
    /\ Found("social", last.ticker, last.days, clock) = {}
    /\ last.result.total_data_points = 0

(***************************************************************************)
(* normalize_date on its own: one call on any raw timestamp at any time    *)
(***************************************************************************)
InitNormalize ==
    /\ running = "normalize"
    /\ tables = [k \in Kinds |-> {}]
    /\ exists = [k \in Kinds |-> FALSE]
    /\ clock \in Times
    /\ upstream = {}
    /\ fresh = NoRun
    /\ last = Idle

\* normalize_date(date_str)
Normalize ==
    /\ running = "normalize"
    /\ last = Idle
    /\ \E form \in RawForms, t \in Times :
         last' = [op |-> "normalize", raw |-> Raw(form, t),
                  value |-> normalize_date(Raw(form, t), clock)]
    /\ UNCHANGED << running, tables, exists, clock, upstream, fresh >>

NextNormalize == Normalize

SpecNormalize == InitNormalize /\ [][NextNormalize]_vars

\* C15: normalize is total and dispatches in order: null or empty input gives
\* the current time; a string with a GMT/UTC marker is read as an RFC-822
\* date; otherwise a string with a 'T' is read as ISO-8601, a trailing Z
\* meaning offset zero; otherwise the current time; a string its branch
\* cannot parse gives the current time; the result is always a timestamp.
C15_NormalizeDispatch ==
    last.op = "normalize"
        => /\ last.value \in Nat
           /\ last.value =
                (CASE last.raw.form \in {"null", "empty"} -> clock
                   [] last.raw.form = "rfc_gmt" -> last.raw.t
                   [] last.raw.form = "bad_gmt" -> clock
                   [] last.raw.form \in {"iso", "iso_z"} -> last.raw.t
                   [] last.raw.form \in {"rfc_num", "bad_t"} -> clock
                   [] last.raw.form = "plain" -> clock)

\* an ISO timestamp with a trailing Z, read at another time than it denotes,
\* came out as the instant it denotes
C15_Witness_IsoZParsed ==
    /\ last.op = "normalize" /\ last.raw.form = "iso_z"
    /\ last.raw.t # clock /\ last.value = last.raw.t

\* C16: the stores are append-only: over any step (init_database,
\* store_article / store_post, a collection run) every row that was in a
\* store is still in it with all its fields; init_database on an existing
\* store drops and alters nothing.
C16_AppendOnly ==
    [][\A kind \in Kinds : tables[kind] \subseteq tables'[kind]]_vars

\* init_database has run without an error on a store that holds rows
C16_Witness_InitOnExistingStore ==
    /\ last.op = "init" /\ ~last.raised
    /\ tables[last.kind] # {}

(***************************************************************************)
(* The store loop under reordering: the candidates of one run written to   *)
(* the same store in two orders, as adapters running in parallel would     *)
(* hand them over (SQLite serialises the INSERTs).                         *)
(***************************************************************************)
\* the candidate an adapter builds from the catalogue's i-th item
CandidateOf(i, unit, now) ==
    Candidate(Catalogue[i].title, Catalogue[i].content, Catalogue[i].url,
              SourceTag(unit), normalize_date(Catalogue[i].raw, now))

\* the candidates the adapters of a store can hand over at time now
CandidatesOf(kind, now) ==
    UNION {{CandidateOf(i, u, now) : u \in {x \in UnitSet(kind) : Endpoint(x) = Catalogue[i].src}}
             : i \in OffersOf(kind)}

\* the orders in which the candidates of a set can be written
Orders(S) ==
    {f \in [1 .. Cardinality(S) -> S] : \A i, j \in 1 .. Cardinality(S) : f[i] = f[j] => i = j}

\* the writers start on initialised stores
InitOrder ==
    /\ running = "writers"
    /\ clock \in Times
    /\ \E n \in Stores("news", clock), s \in Stores("social", clock) :
           tables = [news |-> n, social |-> s]
    /\ exists = [k \in Kinds |-> TRUE]
    /\ upstream = {}
    /\ fresh = NoRun
    /\ last = Idle

\* the store loop of a run on one set of candidates, in the order the run
\* takes (one) and in another order (other)
StoreInOrder ==
    /\ running = "writers"
    /\ last = Idle
    /\ \E kind \in Kinds, ticker \in Tickers :
       \E offered \in SUBSET CandidatesOf(kind, clock) :
       \E a \in Orders(offered), b \in Orders(offered) :
       \E one \in {StoreAll([table |-> tables[kind], stored |-> 0, added |-> 0, skipped |-> 0],
                            exists[kind], FALSE, ticker, a, 1)},
          other \in {StoreAll([table |-> tables[kind], stored |-> 0, added |-> 0, skipped |-> 0],
                              exists[kind], FALSE, ticker, b, 1)} :
         /\ tables' = [tables EXCEPT ![kind] = one.table]
         /\ last' = [op |-> "stores", kind |-> kind, ticker |-> ticker, offered |-> offered,
                     before |-> tables[kind], one |-> one.table, other |-> other.table]
    /\ UNCHANGED << running, exists, clock, upstream, fresh >>

NextOrder == StoreInOrder

SpecOrder == InitOrder /\ [][NextOrder]_vars

\* the urls of a table's rows
Urls(table) == {r.url : r \in table}

\* C17 as stated: whatever the order of the store() calls, the store ends
\* with the same contents.
C17_ContentsIndependentOfOrder ==
    last.op = "stores" => last.one = last.other

\* C17: whatever the order of the store() calls, the store ends with the same
\* urls, one row per url, the rows it had, and the row of every candidate
\* whose url no other candidate and no earlier row has; of candidates sharing
\* a url the one written first is kept.
C17_UrlsIndependentOfOrder ==
    last.op = "stores"
        => /\ Urls(last.one) = Urls(last.other)
           /\ Urls(last.one) = Urls(last.before) \cup {c.url : c \in last.offered}
           /\ UniqueUrls(last.one) /\ UniqueUrls(last.other)
           /\ last.before \subseteq last.one /\ last.before \subseteq last.other
           /\ \A c \in last.offered :
                (/\ c.url \notin Urls(last.before)
                 /\ \A d \in last.offered : d.url = c.url => d = c)
                    => \A T \in {last.one, last.other} :
                         Row(last.ticker, c.title, c.content, c.url, c.source,
                             c.published_at) \in T

\* two candidates sharing a url new to the store were written in both orders
\* and collapsed to one row, a different one in each order
C17_Witness_SharedUrlCollapsed ==
    /\ last.op = "stores"
    /\ \E c, d \in last.offered : c # d /\ c.url = d.url /\ c.url \notin Urls(last.before)
    /\ Cardinality(last.one) = Cardinality(last.other)
    /\ last.one # last.other

\* C18: url uniqueness is global to a store and covers the empty string: no
\* two rows of a store share a url, under whatever tickers; and a run whose
\* candidate's url is already stored adds no row for it, so the ticker's
\* watermark counts no such row.
C18_UrlsUniqueAcrossTickers ==
    /\ \A kind \in Kinds : \A r1, r2 \in tables[kind] : r1.url = r2.url => r1 = r2
    /\ (last.op = "collect" /\ last.outcome = "returned" /\ last.fault = NoFault)
         => /\ last.added + last.skipped = last.collected
            /\ last.added = 0
                 => MaxPublished(tables[last.kind], last.ticker) = last.latest_before

\* a run for a ticker without rows gathered a candidate with the empty url,
\* which the other ticker's row holds, and added nothing
C18_Witness_EmptyUrlTakenByOtherTicker ==
    /\ last.op = "collect" /\ last.fault = NoFault /\ last.collected > 0
    /\ last.added = 0 /\ last.skipped = last.collected
    /\ RowsOf(last.kind, last.ticker) = {}
    /\ \E r \in tables[last.kind] : r.url = "" /\ r.ticker # last.ticker

\* the rows a step adds to a store
AddedTo(kind) == tables'[kind] \ tables[kind]

====
